---- MODULE Spec2Model ----
(***************************************************************************)
(* Diagonal sudoku solver (src/solution.py): constraint propagation        *)
(* (eliminate, only_choice, naked_twins) iterated by reduce_puzzle, and a  *)
(* depth-first search with backtracking, with the module-level list        *)
(* `assignments` recording a board snapshot at every assign_value that     *)
(* fixes a box.                                                            *)
(*                                                                         *)
(* Representation.  A box 'A1'..'I9' is its index 1..81 in `boxes` (row    *)
(* major), so that the string order b1 < b2 of the source is the integer   *)
(* order.  A box's value is a string of distinct digits in ascending order *)
(* (grid_values makes '123456789' or one digit, and str.replace only       *)
(* deletes characters), modelled as the set of its digits; iterating the   *)
(* string is iterating the set in ascending order.                         *)
(***************************************************************************)
EXTENDS Integers, Sequences, FiniteSets, TLC

VARIABLES
    hashseed,     \* the process's string hash seed: fixes the iteration order of every set of boxes
    grid,         \* the grid string given to solve (0 stands for '.')
    values,       \* the board of the search frame being executed
    assignments,  \* the module-level list `assignments`
    stack,        \* the suspended search frames: the reduced board, the branch box, the digits left
    pc,           \* position in solve / search / reduce_puzzle
    n_solved_before, \* reduce_puzzle's local
    result,       \* what the calls to solve returned, in call order
    marks,        \* for each call to solve, len(assignments) when it was entered
    nfix,         \* number of times a box of a board went from not one digit to one digit
    before,       \* `values` and `assignments` as they were when the last call was made
    call          \* the last call made: the function and, for assign_value, its box and value

vars == <<hashseed, grid, values, assignments, stack, pc, n_solved_before, result, marks, nfix,
          before, call>>

\* ---------------------------------------------------------------- constants
digits == 1..9
rows == 1..9
cols == 1..9

\* cross(A, B): row-major list of the boxes at rows A (a sequence) and columns B
cross(A, B) == [i \in 1..(Len(A) * Len(B)) |->
                  9 * (A[((i - 1) \div Len(B)) + 1] - 1) + B[((i - 1) % Len(B)) + 1]]

boxes == cross([i \in 1..9 |-> i], [i \in 1..9 |-> i])
row_units == [r \in 1..9 |-> cross(<<r>>, [i \in 1..9 |-> i])]
col_units == [c \in 1..9 |-> cross([i \in 1..9 |-> i], <<c>>)]
square_units == [k \in 1..9 |->
                   cross([i \in 1..3 |-> 3 * ((k - 1) \div 3) + i],
                         [i \in 1..3 |-> 3 * ((k - 1) % 3) + i])]
\* mutant: the second diagonal built without reversed(rows)
diag_units_same == << [i \in 1..9 |-> 9 * (i - 1) + i],
                      [i \in 1..9 |-> 9 * (i - 1) + i] >>
diag_units == << [i \in 1..9 |-> 9 * (i - 1) + i],
                 [i \in 1..9 |-> 9 * ((10 - i) - 1) + i] >>
Range(s) == {s[i] : i \in 1..Len(s)}
diag_boxes == Range(diag_units[1]) \cup Range(diag_units[2])
unitlist == row_units \o col_units \o square_units \o diag_units
units == [box \in Range(boxes) |-> SelectSeq(unitlist, LAMBDA unit : box \in Range(unit))]
peers == [box \in Range(boxes) |->
            UNION {Range(units[box][i]) : i \in 1..Len(units[box])} \ {box}]

\* The iteration order of a set of boxes (for peer in peers[box]): set order
\* follows the string hashes, which the process's hash seed decides.  Two seeds
\* are modelled: one iterating in ascending, one in descending box order.
Reverse(s) == [i \in 1..Len(s) |-> s[Len(s) + 1 - i]]
IterSet(S, seed) == IF seed = 0 THEN SelectSeq(boxes, LAMBDA b : b \in S)
                    ELSE SelectSeq(Reverse(boxes), LAMBDA b : b \in S)
peersIter == [seed \in {0, 1} |-> [box \in Range(boxes) |-> IterSet(peers[box], seed)]]

len(v) == Cardinality(v)

\* The loops below are recursions over the index of the list iterated.  TLC
\* passes an operator's arguments unevaluated, so each loop test first
\* evaluates the board reached so far: the steps are then taken one after
\* another, in the source's order, rather than all at the loop's end.
exhausted(st, i, n) == st.nfix >= 0 /\ i > n

\* ---------------------------------------------------------------- assign_value
\* st is the pair (the dict `values`, mutated in place; the global `assignments`)
\* with the count nfix of boxes that went from not-one to one digit.
\* mutant: without the early return for an unchanged value
assign_value_always(st, box, value) ==
    LET nv == [st.values EXCEPT ![box] = value]
    IN  [values |-> nv,
         assignments |-> IF Cardinality(value) = 1 THEN Append(st.assignments, nv)
                         ELSE st.assignments,
         nfix |-> st.nfix,
         seed |-> st.seed]

assign_value(st, box, value) ==
    IF st.values[box] = value THEN st
    ELSE LET nv == [st.values EXCEPT ![box] = value]
         IN  [values |-> nv,
              assignments |-> IF len(value) = 1 THEN Append(st.assignments, nv)
                              ELSE st.assignments,
              nfix |-> IF len(value) = 1 /\ len(st.values[box]) # 1 THEN st.nfix + 1
                       ELSE st.nfix,
              seed |-> st.seed]

\* ---------------------------------------------------------------- eliminate
\* mutant: a peer that is already fixed is left alone, so two equal digits in
\* a unit never empty a box
RECURSIVE eliminate_peers_unfixed(_, _, _, _)
eliminate_peers_unfixed(st, digit, ps, i) ==
    IF exhausted(st, i, Len(ps)) THEN st
    ELSE eliminate_peers_unfixed(
             IF len(st.values[ps[i]]) > 1
             THEN assign_value(st, ps[i], st.values[ps[i]] \ digit)
             ELSE st,
             digit, ps, i + 1)

\* mutant: the digit is removed from '123456789', not from the peer's value
RECURSIVE eliminate_peers_from_all(_, _, _, _)
eliminate_peers_from_all(st, digit, ps, i) ==
    IF exhausted(st, i, Len(ps)) THEN st
    ELSE eliminate_peers_from_all(assign_value(st, ps[i], digits \ digit), digit, ps, i + 1)

RECURSIVE eliminate_peers(_, _, _, _)
eliminate_peers(st, digit, ps, i) ==
    IF exhausted(st, i, Len(ps)) THEN st
    ELSE eliminate_peers(assign_value(st, ps[i], st.values[ps[i]] \ digit), digit, ps, i + 1)

RECURSIVE eliminate_boxes(_, _, _)
eliminate_boxes(st, bs, i) ==
    IF exhausted(st, i, Len(bs)) THEN st
    ELSE eliminate_boxes(eliminate_peers(st, st.values[bs[i]], peersIter[st.seed][bs[i]], 1), bs, i + 1)

\* mutant: no list of the fixed boxes is taken first: a box fixed during the
\* pass is visited too when its turn comes
RECURSIVE eliminate_live(_, _)
eliminate_live(st, b) ==
    IF exhausted(st, b, Len(boxes)) THEN st
    ELSE eliminate_live(
             IF len(st.values[boxes[b]]) = 1
             THEN eliminate_peers(st, st.values[boxes[b]], peersIter[st.seed][boxes[b]], 1)
             ELSE st,
             b + 1)
eliminate_unlisted(st) == eliminate_live(st, 1)

eliminate(st) ==
    eliminate_boxes(st, SelectSeq(boxes, LAMBDA box : len(st.values[box]) = 1), 1)

\* ---------------------------------------------------------------- only_choice
\* mutant: the first possible place is taken even when there are several
RECURSIVE only_choice_digits_first(_, _, _)
only_choice_digits_first(st, unit, digit) ==
    IF exhausted(st, digit, 9) THEN st
    ELSE LET placements == SelectSeq(unit, LAMBDA box : digit \in st.values[box])
         IN  only_choice_digits_first(IF Len(placements) >= 1
                                      THEN assign_value(st, placements[1], {digit})
                                      ELSE st,
                                      unit, digit + 1)

RECURSIVE only_choice_digits(_, _, _)
only_choice_digits(st, unit, digit) ==
    IF exhausted(st, digit, 9) THEN st
    ELSE LET placements == SelectSeq(unit, LAMBDA box : digit \in st.values[box])
         IN  only_choice_digits(IF Len(placements) = 1
                                THEN assign_value(st, placements[1], {digit})
                                ELSE st,
                                unit, digit + 1)

RECURSIVE only_choice_units(_, _)
only_choice_units(st, u) ==
    IF exhausted(st, u, Len(unitlist)) THEN st
    ELSE only_choice_units(only_choice_digits(st, unitlist[u], 1), u + 1)

only_choice(st) == only_choice_units(st, 1)

\* ---------------------------------------------------------------- naked_twins
twins_of(vals, unit) ==
    SelectSeq([k \in 1..(Len(unit) * Len(unit)) |->
                 <<unit[((k - 1) \div Len(unit)) + 1], unit[((k - 1) % Len(unit)) + 1]>>],
              LAMBDA t : /\ len(vals[t[1]]) = 2
                         /\ len(vals[t[2]]) = 2
                         /\ vals[t[1]] = vals[t[2]]
                         /\ t[1] < t[2])

RECURSIVE naked_twins_peers(_, _, _, _)
naked_twins_peers(st, vals12, ps, i) ==
    IF exhausted(st, i, Len(ps)) THEN st
    ELSE naked_twins_peers(assign_value(st, ps[i], st.values[ps[i]] \ vals12), vals12, ps, i + 1)

RECURSIVE naked_twins_pairs(_, _, _)
naked_twins_pairs(st, twins, k) ==
    IF exhausted(st, k, Len(twins)) THEN st
    ELSE LET box1 == twins[k][1]
             box2 == twins[k][2]
         IN  naked_twins_pairs(
                 IF len(st.values[box1]) < 2 THEN st
                 ELSE naked_twins_peers(st, st.values[box1],
                          IterSet(peers[box1] \cap ((peers[box2] \ {box1}) \ {box2}), st.seed), 1),
                 twins, k + 1)

RECURSIVE naked_twins_units(_, _)
naked_twins_units(st, u) ==
    IF exhausted(st, u, Len(unitlist)) THEN st
    ELSE naked_twins_units(naked_twins_pairs(st, twins_of(st.values, unitlist[u]), 1), u + 1)

naked_twins(st) == naked_twins_units(st, 1)

\* ---------------------------------------------------------------- grid_values
grid_values(g) == [box \in Range(boxes) |-> IF g[box] = 0 THEN digits ELSE {g[box]}]

\* ---------------------------------------------------------------- inputs
\* Grid strings, 0 for '.'.
\* solution.py line 216
diag_sudoku_grid ==
    << 2, 0, 0, 0, 0, 0, 0, 0, 0,
       0, 0, 0, 0, 0, 6, 2, 0, 0,
       0, 0, 1, 0, 0, 0, 0, 7, 0,
       0, 0, 6, 0, 0, 8, 0, 0, 0,
       3, 0, 0, 0, 9, 0, 0, 0, 7,
       0, 0, 0, 6, 0, 0, 4, 0, 0,
       0, 4, 0, 0, 0, 0, 8, 0, 0,
       0, 0, 5, 2, 0, 0, 0, 0, 0,
       0, 0, 0, 0, 0, 0, 0, 0, 3 >>

\* solution.py line 217
error_sudoku_1 ==
    << 1, 0, 0, 0, 0, 0, 0, 2, 0,
       0, 0, 0, 0, 9, 0, 5, 0, 0,
       0, 0, 0, 0, 0, 0, 0, 0, 0,
       0, 0, 0, 0, 8, 0, 0, 0, 4,
       0, 0, 0, 0, 0, 0, 0, 0, 0,
       9, 0, 0, 7, 1, 2, 3, 0, 0,
       0, 0, 0, 0, 0, 0, 0, 0, 0,
       3, 0, 0, 0, 0, 4, 0, 0, 0,
       0, 0, 9, 3, 6, 0, 4, 0, 0 >>

\* diag_sudoku_grid with a second 2 in row A
duplicate_grid ==
    << 2, 2, 0, 0, 0, 0, 0, 0, 0,
       0, 0, 0, 0, 0, 6, 2, 0, 0,
       0, 0, 1, 0, 0, 0, 0, 7, 0,
       0, 0, 6, 0, 0, 8, 0, 0, 0,
       3, 0, 0, 0, 9, 0, 0, 0, 7,
       0, 0, 0, 6, 0, 0, 4, 0, 0,
       0, 4, 0, 0, 0, 0, 8, 0, 0,
       0, 0, 5, 2, 0, 0, 0, 0, 0,
       0, 0, 0, 0, 0, 0, 0, 0, 3 >>

\* the solution of diag_sudoku_grid less A2, A3, D2, D3: two completions
ambiguous_grid ==
    << 2, 0, 0, 9, 4, 5, 3, 8, 1,
       8, 5, 3, 7, 1, 6, 2, 4, 9,
       4, 9, 1, 8, 2, 3, 5, 7, 6,
       5, 0, 0, 4, 3, 8, 1, 9, 2,
       3, 8, 4, 1, 9, 2, 6, 5, 7,
       1, 2, 9, 6, 5, 7, 4, 3, 8,
       6, 4, 2, 3, 7, 9, 8, 1, 5,
       9, 3, 5, 2, 8, 1, 7, 6, 4,
       7, 1, 8, 5, 6, 4, 9, 2, 3 >>

\* ten givens
sparse_grid ==
    << 0, 0, 0, 0, 0, 0, 0, 0, 0,
       0, 5, 0, 0, 0, 0, 0, 0, 0,
       0, 9, 0, 0, 0, 0, 0, 7, 0,
       5, 0, 6, 4, 0, 0, 0, 0, 0,
       0, 0, 4, 0, 0, 0, 6, 0, 0,
       0, 0, 0, 0, 0, 7, 0, 3, 0,
       0, 0, 0, 0, 0, 0, 0, 1, 0,
       9, 0, 0, 0, 8, 0, 0, 0, 0,
       7, 0, 0, 0, 0, 4, 0, 0, 0 >>

\* a grid on which reduce_puzzle stops although the propagators still prune
stalled_grid ==
    << 0, 6, 7, 0, 0, 5, 0, 8, 0,
       8, 5, 0, 0, 0, 0, 0, 0, 0,
       0, 0, 1, 8, 0, 0, 0, 7, 6,
       0, 7, 6, 4, 0, 0, 0, 0, 0,
       0, 0, 4, 1, 0, 0, 0, 0, 0,
       0, 2, 0, 0, 0, 7, 0, 3, 0,
       0, 0, 2, 3, 0, 0, 8, 0, 0,
       0, 0, 5, 2, 8, 1, 0, 6, 0,
       7, 1, 8, 0, 0, 0, 0, 0, 0 >>

\* A6..A9 must take 7, 8, 9: every branch of the search fails
exhausted_grid ==
    << 1, 2, 3, 4, 5, 0, 0, 0, 0,
       0, 0, 0, 0, 0, 0, 6, 0, 0,
       0, 0, 0, 0, 0, 0, 0, 0, 0,
       0, 0, 0, 0, 0, 0, 0, 0, 0,
       0, 0, 0, 0, 0, 6, 0, 0, 0,
       0, 0, 0, 0, 0, 0, 9, 0, 0,
       0, 0, 0, 0, 0, 0, 0, 7, 0,
       0, 0, 0, 0, 0, 0, 0, 0, 8,
       0, 0, 0, 0, 0, 0, 0, 0, 0 >>

\* A1 and I9 both 5: equal digits that share the main diagonal only
diagonal_clash_grid ==
    << 5, 0, 0, 0, 0, 0, 0, 0, 0,
       0, 0, 0, 0, 0, 0, 0, 0, 0,
       0, 0, 0, 0, 0, 0, 0, 0, 0,
       0, 0, 0, 0, 0, 0, 0, 0, 0,
       0, 0, 0, 0, 0, 0, 0, 0, 0,
       0, 0, 0, 0, 0, 0, 0, 0, 0,
       0, 0, 0, 0, 0, 0, 0, 0, 0,
       0, 0, 0, 0, 0, 0, 0, 0, 0,
       0, 0, 0, 0, 0, 0, 0, 0, 5 >>

\* the solution of diag_sudoku_grid: no blank
solved_grid ==
    << 2, 6, 7, 9, 4, 5, 3, 8, 1,
       8, 5, 3, 7, 1, 6, 2, 4, 9,
       4, 9, 1, 8, 2, 3, 5, 7, 6,
       5, 7, 6, 4, 3, 8, 1, 9, 2,
       3, 8, 4, 1, 9, 2, 6, 5, 7,
       1, 2, 9, 6, 5, 7, 4, 3, 8,
       6, 4, 2, 3, 7, 9, 8, 1, 5,
       9, 3, 5, 2, 8, 1, 7, 6, 4,
       7, 1, 8, 5, 6, 4, 9, 2, 3 >>

\* Every grid that is solved_grid outside the boxes A2, A3, D2, D3 (which hold
\* 6, 7, 7, 6 there and can be swapped to 7, 6, 6, 7) and has '.', 6 or 7 in
\* each of the four: unique, ambiguous and clashing grids.
RectangleBoxes == {2, 3, 29, 30}
RectangleGrids ==
    {[b \in 1..81 |-> IF b \in RectangleBoxes THEN f[b] ELSE solved_grid[b]] :
        f \in [RectangleBoxes -> {0, 6, 7}]}

Grids ==
    {diag_sudoku_grid, error_sudoku_1, duplicate_grid, ambiguous_grid, sparse_grid,
     stalled_grid, exhausted_grid, diagonal_clash_grid, solved_grid} \cup RectangleGrids
MaxSolves == 2

\* ---------------------------------------------------------------- sanity_check
\* TRUE iff every assert of sanity_check passes
sanity_check ==
    /\ Cardinality(rows) = 9
    /\ Cardinality(cols) = 9
    /\ Len(boxes) = 81
    /\ Len(row_units) = 9
    /\ Len(col_units) = 9
    /\ Len(square_units) = 9
    /\ Len(diag_units) = 2
    /\ Len(unitlist) = 29
    /\ Len(units[41]) = 5
    /\ \A box \in diag_boxes \ {41} : Len(units[box]) = 4
    /\ \A box \in Range(boxes) \ diag_boxes : Len(units[box]) = 3
    /\ Cardinality(peers[41]) = 32
    /\ \A box \in diag_boxes \ {41} : Cardinality(peers[box]) = 26
    /\ \A box \in Range(boxes) \ diag_boxes : Cardinality(peers[box]) = 20

\* ---------------------------------------------------------------- solve / search / reduce_puzzle
St == [values |-> values, assignments |-> assignments, nfix |-> nfix, seed |-> hashseed]
Called(fn, box, value) ==
    /\ call' = [fn |-> fn, box |-> box, value |-> value]
    /\ before' = [values |-> values, assignments |-> assignments]
n_solved(vals) == len({box \in Range(boxes) : len(vals[box]) = 1})
empty_board == [box \in Range(boxes) |-> digits]

Init ==
    /\ hashseed \in {0, 1}
    /\ grid \in Grids
    /\ values = empty_board
    /\ assignments = <<>>
    /\ stack = <<>>
    /\ pc = "main"
    /\ n_solved_before = 0
    /\ result = <<>>
    /\ marks = <<>>
    /\ nfix = 0
    /\ before = [values |-> empty_board, assignments |-> <<>>]
    /\ call = [fn |-> "", box |-> 0, value |-> {}]

\* __main__ line 218
SanityCheck ==
    /\ pc = "main"
    /\ pc' = IF sanity_check THEN "ready" ELSE "AssertionError"
    /\ Called("sanity_check", 0, {})
    /\ UNCHANGED <<hashseed, grid, values, assignments, stack, n_solved_before, result, marks, nfix>>

\* solve(grid): grid_values, then search -> reduce_puzzle up to the first n_solved_before
Solve ==
    /\ pc \in {"ready", "done"}
    /\ Len(result) < MaxSolves
    /\ values' = grid_values(grid)
    /\ n_solved_before' = n_solved(grid_values(grid))
    /\ marks' = Append(marks, Len(assignments))
    /\ stack' = <<>>
    /\ pc' = "eliminate"
    /\ Called("solve", 0, {})
    /\ UNCHANGED <<hashseed, grid, assignments, result, nfix>>

Step(fn, next, st) ==
    /\ values' = st.values
    /\ assignments' = st.assignments
    /\ nfix' = st.nfix
    /\ pc' = next
    /\ Called(fn, 0, {})
    /\ UNCHANGED <<hashseed, grid, stack, n_solved_before, result, marks>>

\* reduce_puzzle lines 171, 172, 173
Eliminate == pc = "eliminate" /\ Step("eliminate", "only_choice", eliminate(St))
OnlyChoice == pc = "only_choice" /\ Step("only_choice", "naked_twins", only_choice(St))
NakedTwins == pc = "naked_twins" /\ Step("naked_twins", "check", naked_twins(St))

\* mutant: without the test for an empty box (lines 176-177)
ReduceCheck_untested ==
    /\ pc = "check"
    /\ pc' = IF n_solved(values) = n_solved_before THEN "reduced" ELSE "eliminate"
    /\ n_solved_before' = n_solved(values)
    /\ Called("reduce_puzzle", 0, {})
    /\ UNCHANGED <<hashseed, grid, values, assignments, stack, result, marks, nfix>>

\* reduce_puzzle lines 174-178 and, on a further iteration, line 170
ReduceCheck ==
    /\ pc = "check"
    /\ LET n_solved_after == n_solved(values)
           reduced == n_solved_after = n_solved_before
       IN  /\ pc' = IF {box \in Range(boxes) : len(values[box]) = 0} # {} THEN "failed"
                    ELSE IF reduced THEN "reduced" ELSE "eliminate"
           /\ n_solved_before' = n_solved_after
    /\ Called("reduce_puzzle", 0, {})
    /\ UNCHANGED <<hashseed, grid, values, assignments, stack, result, marks, nfix>>

\* search lines 189-190, and every caller's `if solved: return solved` up to solve
SearchSolved ==
    /\ pc = "reduced"
    /\ \A b \in Range(boxes) : len(values[b]) = 1
    /\ result' = Append(result, values)
    /\ stack' = <<>>
    /\ pc' = "done"
    /\ Called("search", 0, {})
    /\ UNCHANGED <<hashseed, grid, values, assignments, n_solved_before, marks, nfix>>

\* min((len(values[b]), b) for b in boxes if len(values[b]) > 1)
min_box(vals) ==
    LET open == {b \in Range(boxes) : len(vals[b]) > 1}
    IN  CHOOSE b \in open : \A c \in open :
            len(vals[b]) < len(vals[c]) \/ (len(vals[b]) = len(vals[c]) /\ b <= c)

Min(S) == CHOOSE x \in S : \A y \in S : x <= y

\* new_values = values.copy(); new_values[box] = v; search(new_values)
Enter(vals, box, v) ==
    /\ values' = [vals EXCEPT ![box] = {v}]
    /\ n_solved_before' = n_solved([vals EXCEPT ![box] = {v}])
    /\ nfix' = IF len(vals[box]) # 1 THEN nfix + 1 ELSE nfix
    /\ pc' = "eliminate"
    /\ Called("search", box, {v})

\* search lines 192-197, first digit of the branch box
SearchBranch ==
    /\ pc = "reduced"
    /\ ~ \A b \in Range(boxes) : len(values[b]) = 1
    /\ LET box == min_box(values)
           v == Min(values[box])
       IN  /\ stack' = Append(stack, [values |-> values, box |-> box, rest |-> values[box] \ {v}])
           /\ Enter(values, box, v)
    /\ UNCHANGED <<hashseed, grid, assignments, result, marks>>

\* a search call returned False (line 188) or None (off the end of the loop):
\* the caller's loop goes on with the next digit
NextDigit ==
    /\ pc = "failed"
    /\ stack # <<>>
    /\ LET f == stack[Len(stack)]
       IN  /\ f.rest # {}
           /\ stack' = [stack EXCEPT ![Len(stack)].rest = f.rest \ {Min(f.rest)}]
           /\ Enter(f.values, f.box, Min(f.rest))
    /\ UNCHANGED <<hashseed, grid, assignments, result, marks>>

\* the caller's loop is exhausted: it returns None
Exhausted ==
    /\ pc = "failed"
    /\ stack # <<>>
    /\ stack[Len(stack)].rest = {}
    /\ values' = stack[Len(stack)].values
    /\ stack' = SubSeq(stack, 1, Len(stack) - 1)
    /\ Called("search", 0, {})
    /\ UNCHANGED <<hashseed, grid, assignments, pc, n_solved_before, result, marks, nfix>>

\* Python's False, returned by solve and reduce_puzzle: the empty sequence here,
\* which no board (a function on the 81 boxes) equals
False == << >>

\* solve lines 210-212: the root search returned False or None
SolveFalse ==
    /\ pc = "failed"
    /\ stack = <<>>
    /\ result' = Append(result, False)
    /\ pc' = "done"
    /\ Called("solve", 0, {})
    /\ UNCHANGED <<hashseed, grid, values, assignments, stack, n_solved_before, marks, nfix>>

Next ==
    \/ SanityCheck \/ Solve \/ Eliminate \/ OnlyChoice \/ NakedTwins \/ ReduceCheck
    \/ SearchSolved \/ SearchBranch \/ NextDigit \/ Exhausted \/ SolveFalse

Spec == Init /\ [][Next]_vars

\* ---------------------------------------------------------------- calls of the functions on boards
\* The functions are also called on boards directly.  The boards drawn are
\* those with every box '123456789' except the first NPattern boxes of
\* PatternBoxes (A1, A2, E5, B2, I9), which take any of PatternValues.
NPattern == 3
PatternBoxes == <<1, 2, 41, 11, 81>>
PatternValues == {{1}, {2}, {1, 2}, digits}
Pattern == {PatternBoxes[i] : i \in 1..NPattern}
PatternBoards ==
    {[box \in Range(boxes) |-> IF box \in Pattern THEN f[box] ELSE digits] :
        f \in [Pattern -> PatternValues]}

InitFn ==
    /\ hashseed \in {0, 1}
    /\ grid = [box \in Range(boxes) |-> 0]
    /\ values \in PatternBoards
    /\ assignments = <<>>
    /\ stack = <<>>
    /\ pc = "call"
    /\ n_solved_before = 0
    /\ result = <<>>
    /\ marks = <<>>
    /\ nfix = 0
    /\ before = [values |-> values, assignments |-> <<>>]
    /\ call = [fn |-> "", box |-> 0, value |-> {}]

Return(fn, box, value, st) ==
    /\ pc = "call"
    /\ values' = st.values
    /\ assignments' = st.assignments
    /\ nfix' = st.nfix
    /\ pc' = "returned"
    /\ Called(fn, box, value)
    /\ UNCHANGED <<hashseed, grid, stack, n_solved_before, result, marks>>

CallAssignValue ==
    \E box \in Pattern, value \in PatternValues \cup {{}} :
        Return("assign_value", box, value, assign_value(St, box, value))
CallEliminate == Return("eliminate", 0, {}, eliminate(St))
CallOnlyChoice == Return("only_choice", 0, {}, only_choice(St))
CallNakedTwins == Return("naked_twins", 0, {}, naked_twins(St))

NextFn == CallAssignValue \/ CallEliminate \/ CallOnlyChoice \/ CallNakedTwins

SpecFn == InitFn /\ [][NextFn]_vars

\* ================================================================ properties
\* The topology as the specification states it, by coordinates: box (r, c) of
\* row r and column c, the 9 rows, 9 columns, 9 boxes and 2 diagonals.
Cell(r, c) == 9 * (r - 1) + c
RowCells == {{Cell(r, c) : c \in 1..9} : r \in 1..9}
ColCells == {{Cell(r, c) : r \in 1..9} : c \in 1..9}
BoxCells == {{Cell(3 * i + a, 3 * j + b) : a \in 1..3, b \in 1..3} : i \in 0..2, j \in 0..2}
DiagCells == {{Cell(i, i) : i \in 1..9}, {Cell(i, 10 - i) : i \in 1..9}}
AllUnits == RowCells \cup ColCells \cup BoxCells \cup DiagCells
AllCells == 1..81
E5 == Cell(5, 5)
OnDiagonal == UNION DiagCells
UnitsOf(b) == {u \in AllUnits : b \in u}
PeersOf(b) == UNION UnitsOf(b) \ {b}

IsBoard(x) == DOMAIN x = AllCells
Fixed(board) == \A b \in AllCells : Cardinality(board[b]) = 1
SolvedBoard(board) ==
    /\ IsBoard(board)
    /\ Fixed(board)
    /\ \A u \in AllUnits : \A d \in 1..9 : Cardinality({b \in u : board[b] = {d}}) = 1
KeepsGivens(g, board) == \A b \in AllCells : g[b] # 0 => board[b] = {g[b]}
HasEmpty(board) == \E b \in AllCells : board[b] = {}
IsPrefix(s, t) == Len(s) <= Len(t) /\ SubSeq(t, 1, Len(s)) = s
Returned == {result[i] : i \in 1..Len(result)}

\* C1: every board solve returns (any result but False) has each of the 81
\* boxes fixed to one digit, and each of the 29 units holds each digit 1-9
\* exactly once.
C1_ReturnedBoardsAreSolved ==
    \A r \in Returned : r # False => SolvedBoard(r)

\* a solve has returned a board that the search reached by branching
C1_Witness ==
    /\ pc = "done"
    /\ result[Len(result)] # False
    /\ Len(assignments) < nfix

\* Whether a grid has a completion, by exhaustive backtracking over its blank
\* boxes, most constrained first: each tries every digit no box sharing a unit
\* with it holds.
PeerSets == [b \in AllCells |-> PeersOf(b)]
GivensClash(g) == \E b \in AllCells : g[b] # 0 /\ \E c \in PeerSets[b] : g[c] = g[b]
Legal(g, b) == {d \in 1..9 : \A c \in PeerSets[b] : g[c] # d}
RECURSIVE Completable(_)
Completable(g) ==
    LET blanks == {b \in AllCells : g[b] = 0}
    IN  IF blanks = {} THEN TRUE
        ELSE LET fewest == Min({Cardinality(Legal(g, x)) : x \in blanks})
                 b == CHOOSE x \in blanks : Cardinality(Legal(g, x)) = fewest
             IN  \E d \in Legal(g, b) : Completable([g EXCEPT ![b] = d])
HasCompletion(g) == ~GivensClash(g) /\ Completable(g)

\* C2: solve returns False iff the grid has no completion that keeps every
\* given digit and puts each digit once in each of the 29 units.  A board
\* returned must be such a completion (so one exists), and False must be
\* returned only for a grid that has none.
C2_FalseIffNoCompletion ==
    \A r \in Returned :
        IF r = False THEN ~HasCompletion(grid)
        ELSE SolvedBoard(r) /\ KeepsGivens(grid, r)

\* solve returned False for a grid whose givens do not clash: every branch of
\* the search was exhausted
C2_Witness ==
    /\ pc = "done"
    /\ result[Len(result)] = False
    /\ ~GivensClash(grid)
    /\ nfix > Len(assignments)

\* the Assignment Record as it stood when the i-th call of solve returned
RecordAfter(i) ==
    SubSeq(assignments, 1, IF i < Len(marks) THEN marks[i + 1] ELSE Len(assignments))

\* C3: solving the same grid twice yields the same board and the same
\* Assignment Record: the record after the second solve is the sequence of
\* snapshots it was after the first.
C3_SameRecordTwice ==
    (pc = "done" /\ Len(result) >= 2) =>
        /\ result[2] = result[1]
        /\ RecordAfter(2) = RecordAfter(1)

\* C4: eliminate, only_choice and naked_twins never add a digit to a box:
\* after the call every box's set is a subset of the one it had before.
C4_PropagatorsOnlyShrink ==
    call.fn \in {"eliminate", "only_choice", "naked_twins"} =>
        \A b \in AllCells : values[b] \subseteq before.values[b]

\* each propagator has removed a digit from some box of some board
C4_Witness ==
    /\ call.fn = "naked_twins"
    /\ \E b \in AllCells : values[b] # before.values[b]
    /\ stack # <<>>

\* C5: the Assignment Record holds exactly one snapshot per fixing event, by a
\* propagator or by the branching step of the search: its length is the
\* number of fixing events; it never shrinks and holds no two equal
\* consecutive snapshots.
C5_OneSnapshotPerFixing ==
    /\ Len(assignments) = nfix
    /\ IsPrefix(before.assignments, assignments)
    /\ \A i \in 1..(Len(assignments) - 1) : assignments[i] # assignments[i + 1]

Topology ==
    /\ Range(boxes) = AllCells /\ Len(boxes) = 81
    /\ Len(unitlist) = 29
    /\ \A i \in 1..Len(unitlist) : Len(unitlist[i]) = 9 /\ Cardinality(Range(unitlist[i])) = 9
    /\ {Range(u) : u \in Range(row_units)} = RowCells /\ Len(row_units) = 9
    /\ {Range(u) : u \in Range(col_units)} = ColCells /\ Len(col_units) = 9
    /\ {Range(u) : u \in Range(square_units)} = BoxCells /\ Len(square_units) = 9
    /\ {Range(u) : u \in Range(diag_units)} = DiagCells /\ Len(diag_units) = 2
    /\ \A b \in AllCells :
          /\ {Range(u) : u \in Range(units[b])} = UnitsOf(b)
          /\ peers[b] = PeersOf(b)
          /\ b \notin peers[b]
          /\ Len(units[b]) = (IF b = E5 THEN 5 ELSE IF b \in OnDiagonal THEN 4 ELSE 3)
          /\ Cardinality(peers[b]) = (IF b = E5 THEN 32 ELSE IF b \in OnDiagonal THEN 26 ELSE 20)

C8_ReducedIsFixedPoint ==
    pc = "reduced" =>
        /\ eliminate(St).values = values
        /\ only_choice(St).values = values
        /\ naked_twins(St).values = values

\* C9: as soon as a box is empty reduce_puzzle aborts: no further propagator
\* step changes the board or appends to the Assignment Record.
C9_AbortsAtOnce ==
    (call.fn \in {"only_choice", "naked_twins"} /\ HasEmpty(before.values)) =>
        (values = before.values /\ assignments = before.assignments)

\* C9 as amended: the test is made once a pass (eliminate, only_choice,
\* naked_twins) is complete.  If a box is empty then, reduce_puzzle returns
\* False, leaving board and record as they are, and starts no further pass; a
\* board it returns, or starts a pass on, has no empty box.
C9_AbortsAfterPass ==
    /\ (call.fn = "reduce_puzzle" /\ HasEmpty(before.values)) =>
          (pc = "failed" /\ values = before.values /\ assignments = before.assignments)
    /\ pc \in {"eliminate", "reduced"} => ~HasEmpty(values)
    /\ \A r \in Returned : r # False => ~HasEmpty(r)

\* reduce_puzzle has returned False on a board with an empty box
C9_Witness ==
    /\ call.fn = "reduce_puzzle"
    /\ pc = "failed"
    /\ HasEmpty(values)

\* The boxes eliminate visits (those with one digit), and the orders in which
\* they can be visited.
FixedBoxes(vals) == SelectSeq(boxes, LAMBDA box : Cardinality(vals[box]) = 1)
Orders(bs) ==
    {[i \in 1..Len(bs) |-> bs[p[i]]] :
        p \in {q \in [1..Len(bs) -> 1..Len(bs)] : \A i, j \in 1..Len(bs) : q[i] = q[j] => i = j}}
EliminateInOrder(vals, order, seed) ==
    eliminate_boxes([values |-> vals, assignments |-> <<>>, nfix |-> 0, seed |-> seed], order, 1).values
OrderIndependent(vals, out) ==
    \A order \in Orders(FixedBoxes(vals)) : \A seed \in {0, 1} :
        EliminateInOrder(vals, order, seed) = out
EqualFixedPeers(vals) ==
    \E b \in AllCells : \E c \in PeersOf(b) :
        Cardinality(vals[b]) = 1 /\ vals[b] = vals[c]

\* C10: the board eliminate produces does not depend on the order in which
\* the fixed boxes and their peers are visited.
C10_Confluent ==
    call.fn = "eliminate" => OrderIndependent(before.values, values)

\* C10 as amended: on a board in which no two boxes sharing a unit are fixed
\* to the same digit, the board eliminate produces does not depend on the
\* order in which the fixed boxes and their peers are visited.
C10_ConfluentIfConsistent ==
    (call.fn = "eliminate" /\ ~EqualFixedPeers(before.values)) =>
        OrderIndependent(before.values, values)

\* eliminate has pruned a board with several fixed boxes, no two of them
\* clashing
C10_Witness ==
    /\ call.fn = "eliminate"
    /\ ~EqualFixedPeers(before.values)
    /\ Len(FixedBoxes(before.values)) >= 3
    /\ values # before.values

====
